---- MODULE Spec2Model ----
(***************************************************************************)
(* Model of src/detect_video.py: main() and release_resources().           *)
(* One sequential process; pc is the position of main() in its code.       *)
(* The detector, the capture source, the sink and the keyboard are         *)
(* external: their results are inputs drawn from small sets.               *)
(***************************************************************************)
EXTENDS Integers, Sequences, FiniteSets, TLC

VARIABLES
    pc,            \* position of main()
    save,          \* args.save
    srcFps,        \* what cap.get(CAP_PROP_FPS) reports
    srcSize,       \* <<w, h>> the source reports
    streamLen,     \* number of frames the source can yield
    outputsDir,    \* outputs/ exists
    files,         \* files under outputs/
    cap,           \* "unset" | "closed" | "open" | "released" | "failed"
    capPos,        \* frames already handed out by cap.read()
    width, height, fps,
    writer,        \* "None" | "VideoWriter"
    sinkCfg,       \* <<>> or <<[fps, w, h]>>: how the sink was configured
    writerRel,     \* "none" | "released" | "failed"
    total_counts,  \* dict name -> count
    frame,         \* id of the frame read last (0: none)
    r0,            \* result of the last predict
    frames,        \* ids of the frames cap.read() returned, in order
    detected,      \* per name, the detections the detector has returned
    shown,         \* ids of the frames handed to imshow, in order
    written,       \* ids of the frames appended to the sink, in order
    key, key2,     \* last result of the poll / of the paused wait
    loopExit,      \* how the frame loop was left
    exc,           \* exception in flight
    relLog,        \* release attempts of release_resources, in order
    windows,       \* "none" | "open" | "closed"
    printed,       \* lines printed to stdout
    openAttempts   \* how many times the source was opened

vars == <<pc, save, srcFps, srcSize, streamLen, outputsDir, files, cap, capPos,
          width, height, fps, writer, sinkCfg, writerRel, total_counts, frame,
          r0, frames, detected, shown, written, key, key2, loopExit, exc,
          relLog, windows, printed, openAttempts>>

-----------------------------------------------------------------------------
(* Bounds *)
MaxFrames == 2
MaxDet == 2

ClassIds == {0, 2, 10}
FpsValues == {-1, 0, 30}
SizeValues == {<<640, 480>>, <<320, 240>>}
RawKeys == {-1, 32, 113, 120, 1048689}

(* Program constants *)
DefaultFps == 25
KeyMask == 256
OrdQ == 113
OrdSpace == 32
OrdZero == 48

out_path == "outputs/annotated.mp4"

(* strings are sequences of code points *)
person == <<112, 101, 114, 115, 111, 110>>

\* model.names: the detector's name table; ids 2 and 10 are not in it
names == (0 :> person)

-----------------------------------------------------------------------------
(* Pure helpers *)

RECURSIVE str(_)
\* str(int(cid)) for a non-negative id
str(n) == IF n < 10 THEN <<OrdZero + n>>
          ELSE str(n \div 10) \o <<OrdZero + (n % 10)>>

\* model.names.get(int(cid), str(int(cid)))
ResolveName(cid) == IF cid \in DOMAIN names THEN names[cid] ELSE str(cid)

\* the class names a detection can resolve to
AllNames == {ResolveName(c) : c \in ClassIds}

\* number of detections of a DetectionSet that resolve to name
CountIn(cls, name) ==
    Cardinality({j \in 1..Len(cls) : ResolveName(cls[j]) = name})

\* waitKey(..) & 0xFF
MaskKey(raw) == raw % KeyMask

\* total_counts.get(name, 0)
Get(tc, name) == IF name \in DOMAIN tc THEN tc[name] ELSE 0

IncrOverwrite(tc, name) ==
    [n \in (DOMAIN tc) \union {name} |-> IF n = name THEN 1 ELSE tc[n]]

\* total_counts[name] = total_counts.get(name, 0) + 1
Incr(tc, name) ==
    [n \in (DOMAIN tc) \union {name} |->
        IF n = name THEN Get(tc, name) + 1 ELSE tc[n]]

RECURSIVE TallyIds(_, _)
\* for cid in cls_ids: ...
TallyIds(tc, ids) ==
    IF ids = <<>> THEN tc
    ELSE TallyIds(Incr(tc, ResolveName(Head(ids))), Tail(ids))

TallyResultReset(tc, res) ==
    IF ~res.none /\ Len(res.cls) > 0
    THEN TallyIds([n \in {} |-> 0], res.cls) ELSE tc

\* if r0.boxes is not None and len(r0.boxes) > 0: tally
TallyResult(tc, res) ==
    IF ~res.none /\ Len(res.cls) > 0 THEN TallyIds(tc, res.cls) ELSE tc

RECURSIVE LexLess(_, _)
\* Python's str.__lt__: code point by code point, a proper prefix is smaller
LexLess(a, b) ==
    IF b = <<>> THEN FALSE
    ELSE IF a = <<>> THEN TRUE
    ELSE IF Head(a) # Head(b) THEN Head(a) < Head(b)
    ELSE LexLess(Tail(a), Tail(b))

ShortLexLess(a, b) ==
    \/ Len(a) < Len(b)
    \/ Len(a) = Len(b) /\ LexLess(a, b)

\* the order sorted() uses on str keys
KeyLess(a, b) == LexLess(a, b)

RECURSIVE sorted(_)
\* sorted(total_counts.keys())
sorted(S) ==
    IF S = {} THEN <<>>
    ELSE LET m == CHOOSE x \in S : \A y \in S \ {x} : KeyLess(x, y)
         IN <<m>> \o sorted(S \ {m})

RECURSIVE CountLines(_, _)
CountLines(ks, tc) ==
    IF ks = <<>> THEN <<>>
    ELSE <<[kind |-> "count", k |-> Head(ks), v |-> tc[Head(ks)] ]>>
         \o CountLines(Tail(ks), tc)

\* lines 135-143: what the summary prints
SummaryLines(tc, sv) ==
    (IF DOMAIN tc # {}
     THEN <<[kind |-> "header"]>> \o CountLines(sorted(DOMAIN tc), tc)
     ELSE <<[kind |-> "nodetections"]>>)
    \o (IF sv THEN <<[kind |-> "saved", path |-> out_path]>> ELSE <<>>)

\* the DetectionSets the detector may return
SeqsUpTo(S, n) == UNION {[1..k -> S] : k \in 0..n}
Results == {[none |-> TRUE, cls |-> <<>>]}
           \union {[none |-> FALSE, cls |-> c] : c \in SeqsUpTo(ClassIds, MaxDet)}
NoResult == [none |-> TRUE, cls |-> <<>>]
EmptyDict == [n \in {} |-> 0]

-----------------------------------------------------------------------------
Init ==
    /\ pc = "start"
    /\ save \in BOOLEAN
    /\ srcFps \in FpsValues
    /\ srcSize \in SizeValues
    /\ streamLen \in 0..MaxFrames
    /\ outputsDir = FALSE
    /\ files = {}
    /\ cap = "unset"
    /\ capPos = 0
    /\ width = 0 /\ height = 0 /\ fps = 0
    /\ writer = "None"
    /\ sinkCfg = <<>>
    /\ writerRel = "none"
    /\ total_counts = EmptyDict
    /\ frame = 0
    /\ r0 = NoResult
    /\ frames = <<>>
    /\ detected = [n \in AllNames |-> 0]
    /\ shown = <<>>
    /\ written = <<>>
    /\ key = 255 /\ key2 = 255
    /\ loopExit = "none"
    /\ exc = "none"
    /\ relLog = <<>>
    /\ windows = "none"
    /\ printed = <<>>
    /\ openAttempts = 0

OpenTargetUnchecked(ok) == "setup"

\* lines 67-68: if not cap.isOpened(): raise RuntimeError(...)
OpenTarget(ok) == IF ok THEN "setup" ELSE "done"

\* lines 58-68: makedirs, load the model, open the source (one attempt)
OpenSource ==
    /\ pc = "start"
    /\ outputsDir' = TRUE
    /\ openAttempts' = openAttempts + 1
    /\ \E ok \in BOOLEAN :
        /\ cap' = IF ok THEN "open" ELSE "closed"
        /\ pc' = OpenTarget(ok)
        /\ exc' = IF pc' = "done" THEN "RuntimeError" ELSE exc
    /\ UNCHANGED <<save, srcFps, srcSize, streamLen, files, capPos, width,
                   height, fps, writer, sinkCfg, writerRel, total_counts,
                   frame, r0, frames, detected, shown, written, key, key2,
                   loopExit, relLog, windows, printed>>

FpsOrDefaultNegOnly(f) == IF f < 0 THEN DefaultFps ELSE f

\* lines 73-74: if fps is None or fps <= 0: fps = 25.0
FpsOrDefault(f) == IF f <= 0 THEN DefaultFps ELSE f

\* lines 70-83: source properties, the optional writer, the empty tally
Setup ==
    /\ pc = "setup"
    /\ width' = srcSize[1]
    /\ height' = srcSize[2]
    /\ fps' = FpsOrDefault(srcFps)
    /\ IF save
       THEN /\ writer' = "VideoWriter"
            /\ sinkCfg' = <<[fps |-> fps', w |-> width', h |-> height']>>
            /\ files' = files \union {out_path}
       ELSE UNCHANGED <<writer, sinkCfg, files>>
    /\ total_counts' = EmptyDict
    /\ pc' = "read"
    /\ UNCHANGED <<save, srcFps, srcSize, streamLen, outputsDir, cap, capPos,
                   writerRel, frame, r0, frames, detected, shown, written,
                   key, key2, loopExit, exc, relLog, windows, printed, openAttempts>>

ReadTargetUnchecked(ret) == "predict"

ReadTargetRetry(ret) == IF ret THEN "predict" ELSE "read"

\* lines 90-91: if not ret: break
ReadTarget(ret) == IF ret THEN "predict" ELSE "release"

\* lines 89-91: ret, frame = cap.read(); if not ret: break
Read ==
    /\ pc = "read"
    /\ \E ret \in BOOLEAN :
        /\ ret => capPos < streamLen
        /\ pc' = ReadTarget(ret)
        /\ IF ret
           THEN /\ capPos' = capPos + 1
                /\ frame' = capPos + 1
                /\ frames' = Append(frames, capPos + 1)
                /\ loopExit' = loopExit
           ELSE /\ loopExit' = "eos"
                /\ UNCHANGED <<capPos, frame, frames>>
    /\ UNCHANGED <<save, srcFps, srcSize, streamLen, outputsDir, files, cap,
                   width, height, fps, writer, sinkCfg, writerRel,
                   total_counts, r0, detected, shown, written, key, key2,
                   exc, relLog, windows, printed, openAttempts>>

\* lines 94-95: results = model.predict(frame, ...); r0 = results[0]
Predict ==
    /\ pc = "predict"
    /\ \/ \E res \in Results :
            /\ r0' = res
            /\ detected' = [n \in AllNames |->
                                detected[n] + CountIn(res.cls, n)]
            /\ pc' = "tally"
            /\ UNCHANGED <<exc, loopExit>>
       \/ /\ exc' = "DetectorError"
          /\ loopExit' = "error"
          /\ pc' = "release"
          /\ UNCHANGED <<r0, detected>>
    /\ UNCHANGED <<save, srcFps, srcSize, streamLen, outputsDir, files, cap,
                   capPos, width, height, fps, writer, sinkCfg, writerRel,
                   total_counts, frame, frames, shown, written, key, key2,
                   relLog, windows, printed, openAttempts>>

\* lines 98-102: count the frame's detections by class
Tally ==
    /\ pc = "tally"
    /\ total_counts' = TallyResult(total_counts, r0)
    /\ pc' = "show"
    /\ UNCHANGED <<save, srcFps, srcSize, streamLen, outputsDir, files, cap,
                   capPos, width, height, fps, writer, sinkCfg, writerRel,
                   frame, r0, frames, detected, shown, written, key, key2,
                   loopExit, exc, relLog, windows, printed, openAttempts>>

\* lines 105-108: annotated = r0.plot(); cv2.imshow(window_name, annotated)
Show ==
    /\ pc = "show"
    /\ shown' = Append(shown, frame)
    /\ windows' = "open"
    /\ pc' = "write"
    /\ UNCHANGED <<save, srcFps, srcSize, streamLen, outputsDir, files, cap,
                   capPos, width, height, fps, writer, sinkCfg, writerRel,
                   total_counts, frame, r0, frames, detected, written, key,
                   key2, loopExit, exc, relLog, printed, openAttempts>>

WriteFrameSkip(w, wr, f) == wr

WriteFrameAlways(w, wr, f) == Append(wr, f)

\* lines 111-112: if writer is not None: writer.write(annotated)
WriteFrame(w, wr, f) == IF w # "None" THEN Append(wr, f) ELSE wr

\* lines 110-112: save the frame if requested
Write ==
    /\ pc = "write"
    /\ written' = WriteFrame(writer, written, frame)
    /\ pc' = "poll"
    /\ UNCHANGED <<save, srcFps, srcSize, streamLen, outputsDir, files, cap,
                   capPos, width, height, fps, writer, sinkCfg, writerRel,
                   total_counts, frame, r0, frames, detected, shown, key,
                   key2, loopExit, exc, relLog, windows, printed, openAttempts>>

PollTargetAnyKeyPauses(k) ==
    IF k = OrdQ THEN "release"
    ELSE IF k # KeyMask - 1 THEN "paused"
    ELSE "read"

PollTargetNoQuit(k) ==
    IF k = OrdSpace THEN "paused" ELSE "read"

\* where the poll of lines 117-122 goes for a key
PollTarget(k) ==
    IF k = OrdQ THEN "release"
    ELSE IF k = OrdSpace THEN "paused"
    ELSE "read"

\* lines 117-122: key = cv2.waitKey(1) & 0xFF; q breaks, space pauses
Poll ==
    /\ pc = "poll"
    /\ \E raw \in RawKeys :
        /\ key' = MaskKey(raw)
        /\ pc' = PollTarget(key')
        /\ loopExit' = IF key' = OrdQ THEN "quit" ELSE loopExit
    /\ UNCHANGED <<save, srcFps, srcSize, streamLen, outputsDir, files, cap,
                   capPos, width, height, fps, writer, sinkCfg, writerRel,
                   total_counts, frame, r0, frames, detected, shown, written,
                   key2, exc, relLog, windows, printed, openAttempts>>

PausedTargetAnyKeyResumes(k) ==
    IF k = OrdQ THEN "release" ELSE "read"

PausedTargetReprocess(k) ==
    IF k = OrdSpace THEN "predict"
    ELSE IF k = OrdQ THEN "release"
    ELSE "paused"

\* where the paused wait of lines 124-129 goes for a key
PausedTarget(k) ==
    IF k = OrdSpace THEN "read"
    ELSE IF k = OrdQ THEN "release"
    ELSE "paused"

\* lines 124-129: key2 = cv2.waitKey(0) & 0xFF; space resumes, q returns
PausedWait ==
    /\ pc = "paused"
    /\ \E raw \in RawKeys :
        /\ key2' = MaskKey(raw)
        /\ pc' = PausedTarget(key2')
        /\ loopExit' = IF key2' = OrdQ THEN "return" ELSE loopExit
    /\ UNCHANGED <<save, srcFps, srcSize, streamLen, outputsDir, files, cap,
                   capPos, width, height, fps, writer, sinkCfg, writerRel,
                   total_counts, frame, r0, frames, detected, shown, written,
                   key, exc, relLog, windows, printed, openAttempts>>

release_resources_writerfirst(w, capFails, wFails) ==
    LET wTried == w # "None"
        wRaised == wTried /\ wFails
        winTried == ~wRaised
    IN [log |-> (IF wTried THEN <<"writer">> ELSE <<>>)
                \o <<"cap">>
                \o (IF winTried THEN <<"windows">> ELSE <<>>),
        cap |-> IF capFails THEN "failed" ELSE "released",
        writer |-> IF ~wTried THEN "none"
                   ELSE IF wFails THEN "failed" ELSE "released",
        windowsClosed |-> winTried,
        exc |-> IF wRaised THEN "WriterReleaseError"
                ELSE IF capFails THEN "CapReleaseError"
                ELSE "none"]

release_resources_nofinally(w, capFails, wFails) ==
    LET wTried == ~capFails /\ w # "None"
        wRaised == wTried /\ wFails
        winTried == ~capFails /\ ~wRaised
    IN [log |-> <<"cap">>
                \o (IF wTried THEN <<"writer">> ELSE <<>>)
                \o (IF winTried THEN <<"windows">> ELSE <<>>),
        cap |-> IF capFails THEN "failed" ELSE "released",
        writer |-> IF ~wTried THEN "none"
                   ELSE IF wFails THEN "failed" ELSE "released",
        windowsClosed |-> winTried,
        exc |-> IF capFails THEN "CapReleaseError"
                ELSE IF wRaised THEN "WriterReleaseError"
                ELSE "none"]

\* lines 43-51: try: cap.release()
\*              finally: writer.release() if any; cv2.destroyAllWindows()
\* capFails, wFails: whether cap.release() / writer.release() raises.
\* cap is never None here.  An exception raised inside the finally block
\* skips the rest of the block and replaces the one in flight.
release_resources(w, capFails, wFails) ==
    LET wTried == w # "None"
        wRaised == wTried /\ wFails
        winTried == ~wRaised
    IN [log |-> <<"cap">>
                \o (IF wTried THEN <<"writer">> ELSE <<>>)
                \o (IF winTried THEN <<"windows">> ELSE <<>>),
        cap |-> IF capFails THEN "failed" ELSE "released",
        writer |-> IF ~wTried THEN "none"
                   ELSE IF wFails THEN "failed" ELSE "released",
        windowsClosed |-> winTried,
        exc |-> IF wRaised THEN "WriterReleaseError"
                ELSE IF capFails THEN "CapReleaseError"
                ELSE "none"]

AfterReleaseBreak(e, le) == IF e # "none" THEN "done" ELSE "summary"

\* where main() goes after the finally clause of lines 131-132: an exception
\* in flight propagates, the return of line 129 completes, otherwise the
\* code after the try statement runs
AfterRelease(e, le) ==
    IF e # "none" \/ le = "return" THEN "done" ELSE "summary"

\* lines 131-132: finally: release_resources(cap, writer)
Release ==
    /\ pc = "release"
    /\ \E capFails \in BOOLEAN, wFails \in BOOLEAN :
        LET r == release_resources(writer, capFails, wFails)
        IN /\ cap' = r.cap
           /\ writerRel' = r.writer
           /\ windows' = IF r.windowsClosed THEN "closed" ELSE windows
           /\ relLog' = r.log
           /\ exc' = IF r.exc # "none" THEN r.exc ELSE exc
           /\ pc' = AfterRelease(exc', loopExit)
    /\ UNCHANGED <<save, srcFps, srcSize, streamLen, outputsDir, files,
                   capPos, width, height, fps, writer, sinkCfg, total_counts,
                   frame, r0, frames, detected, shown, written, key, key2,
                   loopExit, printed, openAttempts>>

\* lines 134-143: print the summary
Summary ==
    /\ pc = "summary"
    /\ printed' = printed \o SummaryLines(total_counts, save)
    /\ pc' = "done"
    /\ UNCHANGED <<save, srcFps, srcSize, streamLen, outputsDir, files, cap,
                   capPos, width, height, fps, writer, sinkCfg, writerRel,
                   total_counts, frame, r0, frames, detected, shown, written,
                   key, key2, loopExit, exc, relLog, windows, openAttempts>>

Next ==
    \/ OpenSource
    \/ Setup
    \/ Read
    \/ Predict
    \/ Tally
    \/ Show
    \/ Write
    \/ Poll
    \/ PausedWait
    \/ Release
    \/ Summary

Spec == Init /\ [][Next]_vars

\* the steps that complete by themselves: every call returns or raises,
\* waitKey(1) times out after a millisecond.  The paused waitKey(0) of line
\* 125 has no timeout and returns only when a key is pressed.
NonBlocking ==
    \/ OpenSource
    \/ Setup
    \/ Read
    \/ Predict
    \/ Tally
    \/ Show
    \/ Write
    \/ Poll
    \/ Release
    \/ Summary

\* the runs of one source format: rate and size of the source are read
\* once in Setup and guard no step
LiveInit == Init /\ srcFps = 0 /\ srcSize = <<640, 480>>

LiveSpec == LiveInit /\ [][Next]_vars /\ WF_vars(NonBlocking)

\* the process exit status
ExitCode == IF exc = "none" THEN 0 ELSE 1

TypeOK ==
    /\ pc \in {"start", "setup", "read", "predict", "tally", "show", "write",
               "poll", "paused", "release", "summary", "done"}
    /\ cap \in {"unset", "closed", "open", "released", "failed"}
    /\ writer \in {"None", "VideoWriter"}
    /\ capPos \in 0..streamLen
    /\ key \in 0..255 /\ key2 \in 0..255

-----------------------------------------------------------------------------
(* Properties *)

\* detections of name in the frames tallied so far: all the detector has
\* returned, less those of a frame that is not tallied yet
DetectionsOf(name) ==
    detected[name] - (IF pc = "tally" THEN CountIn(r0.cls, name) ELSE 0)

\* C1: in every state, for every class name the tally holds the number of
\* detections of that name summed over all frames processed so far, and
\* names without a detection are absent from the tally.
C1_TallyIsSum ==
    /\ DOMAIN total_counts = {n \in AllNames : DetectionsOf(n) > 0}
    /\ \A n \in DOMAIN total_counts : total_counts[n] = DetectionsOf(n)

\* two frames, the same unnamed class detected three times in all, twice
\* in the first frame
C1_Witness ==
    /\ pc = "done"
    /\ shown = <<1, 2>>
    /\ r0.cls = <<10>>
    /\ DOMAIN total_counts = {str(10)}
    /\ total_counts[str(10)] = 3

\* release_resources has run
TeardownRan == relLog # <<>>
InLog(e) == \E i \in 1..Len(relLog) : relLog[i] = e

\* C2: whenever the program has terminated, the capture release and, if a
\* sink was opened, the sink release have been attempted and the display
\* surfaces have been closed.
C2_TeardownOnEveryExit ==
    pc = "done" =>
        /\ InLog("cap")
        /\ writer # "None" => InLog("writer")
        /\ InLog("windows")

\* C3: once teardown has run, both releases have been attempted whatever
\* the outcome of the other: a failed capture release does not skip the
\* sink release, a failed sink release does not skip the capture release.
C3_ReleasesIndependent ==
    TeardownRan =>
        /\ cap \in {"released", "failed"}
        /\ writer # "None" => writerRel \in {"released", "failed"}
        /\ InLog("cap")
        /\ writer # "None" => InLog("writer")

C3_Witness ==
    /\ pc = "done"
    /\ cap = "failed"
    /\ writer = "VideoWriter"
    /\ writerRel = "released"

IsPrefix(a, b) == Len(a) <= Len(b) /\ \A i \in 1..Len(a) : a[i] = b[i]
LastProcessed == IF shown = <<>> THEN 0 ELSE shown[Len(shown)]

C4_Inv ==
    /\ Len(frames) <= streamLen
    /\ \A i \in 1..Len(frames) : frames[i] = i
    /\ IsPrefix(shown, frames)
    /\ Len(frames) - Len(shown) <= 1
    /\ pc \in {"read", "poll", "paused"} => shown = frames

C4_Step ==
    /\ (pc = "poll" /\ key' = OrdSpace) =>
            pc' = "paused" /\ UNCHANGED <<capPos, frames, frame, shown>>
    /\ (pc = "paused" /\ key2' = OrdSpace) =>
            pc' = "read" /\ UNCHANGED <<capPos, frames, frame, shown>>
    /\ (pc = "read" /\ pc' = "predict") => frame' = LastProcessed + 1

\* C4: a pause key polled while Running leads to Paused without a read, the
\* next pause key leads back to the read of the frame right after the last
\* one processed, and the frames processed are always a prefix 1, 2, ..
\* of the source's frames, none skipped and none processed twice.
C4_PauseKeepsPosition == []C4_Inv /\ [][C4_Step]_vars

\* paused after frame 1, resumed, frame 2 processed
C4_Witness == key2 = OrdSpace /\ shown = <<1, 2>>

NormalExit == loopExit \in {"eos", "quit"}
SummaryPrinted == printed # <<>>

CountLinesPrinted == SelectSeq(printed, LAMBDA l : l.kind = "count")
NoticeLines == SelectSeq(printed, LAMBDA l : l.kind = "nodetections")
AllFramesEmpty == \A n \in AllNames : detected[n] = 0

\* C6: a printed summary lists exactly the keys of the tally, each once, in
\* strictly increasing lexicographic order, each with its final count; with
\* an empty tally (no frame, or only empty detection sets) it holds the
\* no-detections notice and no class line.
C6_SummaryContents ==
    SummaryPrinted =>
        LET cl == CountLinesPrinted
        IN /\ AllFramesEmpty => DOMAIN total_counts = {}
           /\ IF DOMAIN total_counts # {}
              THEN /\ printed[1] = [kind |-> "header"]
                   /\ {cl[i].k : i \in 1..Len(cl)} = DOMAIN total_counts
                   /\ Len(cl) = Cardinality(DOMAIN total_counts)
                   /\ \A i \in 1..Len(cl) : \A j \in 1..Len(cl) :
                          i < j => LexLess(cl[i].k, cl[j].k)
                   /\ \A i \in 1..Len(cl) : cl[i].v = total_counts[cl[i].k]
                   /\ NoticeLines = <<>>
              ELSE /\ printed[1] = [kind |-> "nodetections"]
                   /\ Len(NoticeLines) = 1
                   /\ cl = <<>>

\* a summary with "10" before "2" before "person"
C6_Witness ==
    /\ SummaryPrinted
    /\ {str(2), str(10), person} \subseteq DOMAIN total_counts
    /\ Len(CountLinesPrinted) >= 3

QuitPolled == loopExit \in {"quit", "return"}

C7_Step ==
    /\ (pc = "poll" /\ key' = OrdQ) => pc' = "release"
    /\ (pc = "paused" /\ key2' = OrdQ) => pc' = "release"
    /\ QuitPolled' =>
          UNCHANGED <<capPos, frame, frames, detected, r0, total_counts,
                      shown, written>>
    /\ QuitPolled =>
          /\ pc' \in {"release", "summary", "done"}
          /\ UNCHANGED <<key, key2, loopExit>>
          /\ pc' = "summary" => loopExit = "quit"

\* C7: from the poll that returns the quit key on, in Running or in Paused,
\* no frame is read, detected, tallied, displayed or written; only teardown
\* and, after a quit in Running, the summary follow.
C7_NothingAfterQuit == [][C7_Step]_vars

C7_Witness ==
    /\ pc = "done"
    /\ loopExit = "quit"
    /\ SummaryPrinted
    /\ Len(shown) = 1
    /\ streamLen >= 2

\* C8: without the save flag no sink is ever created, configured, written
\* to or released, and no file exists under outputs/.
C8_NoSaveNoFile ==
    ~save =>
        /\ writer = "None"
        /\ sinkCfg = <<>>
        /\ written = <<>>
        /\ writerRel = "none"
        /\ files = {}
        /\ ~InLog("writer")

C8_Witness == ~save /\ pc = "done" /\ Len(shown) >= 2 /\ SummaryPrinted

\* C9: a source that cannot be opened ends the program at startup with the
\* fatal error after one attempt: no frame read, no window, no sink, no
\* file under outputs/, no summary, with or without the save flag.
C9_OpenFailureIsFatal ==
    /\ openAttempts <= 1
    /\ cap = "closed" =>
          /\ pc = "done"
          /\ exc = "RuntimeError"
          /\ openAttempts = 1
          /\ capPos = 0 /\ frames = <<>> /\ AllFramesEmpty
          /\ shown = <<>> /\ windows = "none"
          /\ writer = "None" /\ sinkCfg = <<>> /\ written = <<>>
          /\ files = {}
          /\ printed = <<>>

C9_Witness == cap = "closed" /\ save /\ pc = "done" /\ ExitCode = 1

\* C10: after teardown the display surfaces have been closed, also when the
\* capture release or the sink release failed.
C10_WindowsAlwaysClosed ==
    TeardownRan => windows = "closed" /\ InLog("windows")

ReleaseOrder == <<"cap", "writer", "windows">>
RankOf(e) == CHOOSE i \in 1..Len(ReleaseOrder) : ReleaseOrder[i] = e

\* C11: teardown attempts the capture release first, then the sink release
\* if a sink was opened, then the display close; before the capture release
\* attempt no sink is released and no display is closed.
C11_ReleaseOrder ==
    /\ relLog = <<>> =>
          /\ cap \notin {"released", "failed"}
          /\ writerRel = "none"
          /\ windows # "closed"
    /\ TeardownRan =>
          /\ relLog[1] = "cap"
          /\ \A i \in 1..Len(relLog) : \A j \in 1..Len(relLog) :
                i < j => RankOf(relLog[i]) < RankOf(relLog[j])
          /\ writer # "None" => relLog[2] = "writer"
          /\ InLog("writer") => writer # "None"

C11_Witness == pc = "done" /\ relLog = <<"cap", "writer", "windows">>

C12_Step ==
    (pc = "poll" /\ key' \notin {OrdQ, OrdSpace}) =>
        /\ pc' = "read"
        /\ UNCHANGED <<loopExit, exc, cap, capPos, frame, frames, detected,
                       total_counts, shown, written, windows, relLog,
                       printed, key2>>

\* C12: a Running poll that returns anything but q or space, the no-key
\* result included, changes nothing but the polled key: the loop goes on
\* to the next read, neither paused nor ended.
C12_OtherKeysIgnored == [][C12_Step]_vars

\* key x polled after frame 1, then frame 2 read
C12_Witness == key = 120 /\ pc = "predict" /\ frame = 2

NoDataRead == pc = "read" /\ pc' # "read" /\ capPos' = capPos

C13_Step ==
    /\ NoDataRead =>
          /\ pc' = "release"
          /\ loopExit' = "eos"
          /\ exc' = "none"
          /\ UNCHANGED <<frame, frames, r0, detected, total_counts, shown,
                         written>>
    /\ loopExit = "eos" =>
          /\ pc' \in {"release", "summary", "done"}
          /\ UNCHANGED <<capPos, frame, frames, r0, detected, total_counts,
                         shown, written, loopExit>>

C13_Inv ==
    /\ loopExit = "eos" => pc \in {"release", "summary", "done"}
    /\ (loopExit = "eos" /\ pc \in {"summary", "done"}) => TeardownRan
    /\ (loopExit = "eos" /\ pc = "done") => (SummaryPrinted <=> exc = "none")
    /\ (loopExit = "eos" /\ frames = <<>> /\ SummaryPrinted) =>
          /\ printed[1] = [kind |-> "nodetections"]
          /\ CountLinesPrinted = <<>>

C14_DetectorFailure ==
    /\ (loopExit = "error" /\ pc = "done") =>
          /\ exc # "none"
          /\ InLog("cap")
          /\ writer # "None" => InLog("writer")
          /\ InLog("windows")
    /\ loopExit = "error" =>
          /\ pc \in {"release", "done"}
          /\ ~SummaryPrinted
          /\ Len(shown) = Len(frames) - 1
          /\ IsPrefix(shown, frames)
          /\ writer # "None" => written = shown
          /\ \A n \in AllNames : Get(total_counts, n) = detected[n]

C15_Step ==
    pc = "paused" =>
        /\ UNCHANGED <<cap, capPos, frame, frames, r0, detected,
                       total_counts, shown, written, windows, key, relLog,
                       printed, exc>>
        /\ pc' \in {"paused", "read", "release"}
        /\ key2' \notin {OrdSpace, OrdQ} =>
              pc' = "paused" /\ loopExit' = loopExit
        /\ key2' = OrdSpace => pc' = "read" /\ loopExit' = loopExit
        /\ key2' = OrdQ => pc' = "release" /\ loopExit' = "return"

C15_Inv ==
    /\ pc = "paused" =>
          /\ key = OrdSpace
          /\ cap = "open"
          /\ windows = "open"
          /\ loopExit = "none"
    /\ loopExit = "return" => pc \in {"release", "done"}

\* C15: while Paused no step reads, infers, tallies, displays or writes;
\* a key other than space and q leaves the state Paused; Paused is left
\* only by space (to the next read) or by q (to teardown and the end,
\* without summary).
C15_PausedFreezes == []C15_Inv /\ [][C15_Step]_vars

\* still paused after another key
C15_Witness == pc = "paused" /\ key2 = 120 /\ shown = <<1>>

C16_Step ==
    /\ DOMAIN total_counts \subseteq DOMAIN total_counts'
    /\ \A n \in DOMAIN total_counts : total_counts'[n] >= total_counts[n]
    /\ total_counts' # total_counts => pc = "tally" /\ pc' = "show"

C16_Inv == \A n \in DOMAIN total_counts : total_counts[n] >= 1

\* C16: no step removes a key of the tally or lowers a count, every count
\* present is at least 1, and only the tally step changes the tally.
C16_TallyOnlyGrows == []C16_Inv /\ [][C16_Step]_vars

\* two frames tallied: two keys, one of them counted twice
C16_Witness ==
    /\ pc = "done"
    /\ shown = <<1, 2>>
    /\ Cardinality(DOMAIN total_counts) = 2
    /\ \E n \in DOMAIN total_counts : total_counts[n] = 2
    /\ r0.cls # <<>>

Tallied == \A n \in AllNames : Get(total_counts, n) = detected[n]

\* C17: when saving, the sink holds each processed frame once, in read
\* order; at every poll, while paused, at the next read and after a quit
\* the frames written are the frames read, all of them tallied; at loop
\* exit the frames written are the frames displayed.
C17_WrittenBeforePoll ==
    save =>
        /\ \A i \in 1..Len(written) : written[i] = i
        /\ pc \in {"poll", "paused", "read"} =>
              written = frames /\ written = shown /\ Tallied
        /\ pc \in {"release", "summary", "done"} => written = shown
        /\ QuitPolled =>
              written = frames /\ Len(written) >= 1 /\ Tallied

\* saving, paused on the second frame, both frames in the sink
C17_Witness ==
    /\ save
    /\ pc = "paused"
    /\ written = <<1, 2>>
    /\ DOMAIN total_counts # {}

ExpectedSinkCfg ==
    [fps |-> IF srcFps > 0 THEN srcFps ELSE DefaultFps,
     w |-> srcSize[1], h |-> srcSize[2]]

C18_Inv ==
    /\ Len(sinkCfg) <= 1
    /\ pc \in {"start", "setup"} => sinkCfg = <<>> /\ frames = <<>>
    /\ (save /\ pc \notin {"start", "setup"} /\ cap # "closed") =>
          sinkCfg = <<ExpectedSinkCfg>>
    /\ sinkCfg # <<>> => writer = "VideoWriter" /\ save
    /\ capPos <= streamLen /\ Len(frames) = capPos

C18_Step ==
    /\ sinkCfg' # sinkCfg => pc = "setup" /\ sinkCfg = <<>>
    /\ <<fps, width, height>>' # <<fps, width, height>> => pc = "setup"

C19_Inv ==
    pc = "paused" =>
        /\ cap = "open"
        /\ relLog = <<>>
        /\ writerRel = "none"
        /\ windows = "open"

C19_Step ==
    (pc = "paused" /\ key2' \notin {OrdSpace, OrdQ}) =>
        pc' = "paused" /\ UNCHANGED <<cap, relLog, writerRel, windows>>

PausedIsLeft == [](pc = "paused" => <>(pc # "paused"))

\* C19: if every pause is eventually ended by space or q the program
\* eventually terminates; while paused nothing is released, and a step
\* without space or q stays paused.
C19_Terminates ==
    /\ PausedIsLeft => <>(pc = "done")
    /\ []C19_Inv
    /\ [][C19_Step]_vars

\* terminated after a pause that was resumed
C19_Witness == pc = "done" /\ key2 = OrdSpace /\ Len(shown) = 2
====
